---- MODULE Spec2Model ----
(***************************************************************************)
(* Model of the Redis checkpoint saver of src/src/database/redis.py:       *)
(* the key codec, the serializer adapter, the writers (aput, aput_writes), *)
(* the readers (aget_tuple, alist) and the Redis backend they talk to.     *)
(*                                                                         *)
(* A Python str is a sequence of one-character strings, so that split,     *)
(* join, str() of an int, the KEYS glob and the lexicographic order of     *)
(* str are computed the way the code computes them.                        *)
(***************************************************************************)
EXTENDS Integers, Sequences, FiniteSets, TLC

\* ------------------------------------------------------------------ bounds
\* Longest thread_id / checkpoint_ns / checkpoint_id / task_id of the codec runs.
MaxStrLen == 2
\* Largest write position idx of the codec runs.
MaxCodecIdx == 1

\* ----------------------------------------------------------------- strings
REDIS_KEY_SEPARATOR == ":"

\* The code points of the characters the model uses, in ascending order
\* ('*' 42, '0'..'9' 48..57, ':' 58, 'a'..'w' 97..119).
CodePoints ==
    <<"*", "0", "1", "2", "3", "4", "5", "6", "7", "8", "9", ":",
      "a", "b", "c", "e", "h", "i", "k", "n", "o", "p", "r", "s", "t", "w">>

Ord(c) == CHOOSE i \in 1..Len(CodePoints) : CodePoints[i] = c

\* Python's  s < t  on str: lexicographic by code point, a proper prefix first.
RECURSIVE StrLess(_, _)
StrLess(s, t) ==
    IF t = <<>> THEN FALSE
    ELSE IF s = <<>> THEN TRUE
    ELSE IF Head(s) = Head(t) THEN StrLess(Tail(s), Tail(t))
    ELSE Ord(Head(s)) < Ord(Head(t))

\* Python's  sep.join(parts).
RECURSIVE Join(_)
Join(parts) ==
    IF parts = <<>> THEN <<>>
    ELSE IF Len(parts) = 1 THEN parts[1]
    ELSE parts[1] \o <<REDIS_KEY_SEPARATOR>> \o Join(Tail(parts))

\* Python's  s.split(sep): always at least one part, empty parts kept.
RECURSIVE SplitFrom(_, _, _, _)
SplitFrom(s, i, cur, acc) ==
    IF i > Len(s) THEN Append(acc, cur)
    ELSE IF s[i] = REDIS_KEY_SEPARATOR THEN SplitFrom(s, i + 1, <<>>, Append(acc, cur))
    ELSE SplitFrom(s, i + 1, Append(cur, s[i]), acc)

Split(s) == SplitFrom(s, 1, <<>>, <<>>)

Digits == <<"0", "1", "2", "3", "4", "5", "6", "7", "8", "9">>

\* Python's  str(n)  for n >= 0.
RECURSIVE IntToStr(_)
IntToStr(n) ==
    IF n < 10 THEN <<Digits[n + 1]>>
    ELSE IntToStr(n \div 10) \o <<Digits[(n % 10) + 1]>>

\* The kind tokens "checkpoint" and "writes", and the glob "*".
KindCheckpoint == <<"c", "h", "e", "c", "k", "p", "o", "i", "n", "t">>
KindWrites == <<"w", "r", "i", "t", "e", "s">>
Star == <<"*">>

\* idx = None of _make_redis_checkpoint_writes_key.
NoIdx == -1

\* An exception the code lets escape, and the test for one.
Raise(e) == [error |-> e]
IsError(r) == "error" \in DOMAIN r
ValueError == Raise("ValueError")
IndexError == Raise("IndexError")
KeyError == Raise("KeyError")

\* ------------------------------------------------------------- key codec
_make_redis_checkpoint_key(thread_id, checkpoint_ns, checkpoint_id) ==
    Join(<<KindCheckpoint, thread_id, checkpoint_ns, checkpoint_id>>)

\* idx is None (the scan pattern of aget_tuple) or an int.
_make_redis_checkpoint_writes_key(thread_id, checkpoint_ns, checkpoint_id, task_id, idx) ==
    IF idx = NoIdx
    THEN Join(<<KindWrites, thread_id, checkpoint_ns, checkpoint_id, task_id>>)
    ELSE Join(<<KindWrites, thread_id, checkpoint_ns, checkpoint_id, task_id, IntToStr(idx)>>)

\* parts[1], parts[-1], parts[2:-1] of the split key.
_parse_redis_checkpoint_key(redis_key) ==
    LET parts == Split(redis_key) IN
    IF parts[1] # KindCheckpoint THEN ValueError
    ELSE IF Len(parts) < 2 THEN IndexError
    ELSE [thread_id |-> parts[2],
          checkpoint_ns |-> Join(SubSeq(parts, 3, Len(parts) - 1)),
          checkpoint_id |-> parts[Len(parts)]]

\* parts[1], parts[-1], parts[-2], parts[-3], parts[2:-3] of the split key;
\* idx stays the str it is in the key.
_parse_redis_checkpoint_writes_key(redis_key) ==
    LET parts == Split(redis_key) IN
    IF parts[1] # KindWrites THEN ValueError
    ELSE IF Len(parts) < 3 THEN IndexError
    ELSE [thread_id |-> parts[2],
          checkpoint_ns |-> Join(SubSeq(parts, 3, Len(parts) - 3)),
          checkpoint_id |-> parts[Len(parts) - 2],
          task_id |-> parts[Len(parts) - 1],
          idx |-> parts[Len(parts)]]

\* ------------------------------------------------------------ serializer
\* redis-py stores a str value as its bytes and returns bytes; .decode() undoes it.
Encode(s) == [bytes |-> s]
Decode(b) == b.bytes

\* The caller-supplied serializer (self.serde): tagged and untagged dumps/loads.
TypeTag == "msgpack"
SerdeError == "SerdeError"
dumps_typed(value) == <<TypeTag, [bytes |-> <<"typed", value>>]>>
loads_typed(typed) ==
    IF typed[1] = TypeTag /\ typed[2].bytes[1] = "typed" THEN typed[2].bytes[2] ELSE SerdeError
dumps(value) == [bytes |-> <<"json", value>>]
loads(text) == IF text[1] = "json" THEN text[2] ELSE SerdeError

\* An Optional value: <<>> is None, <<x>> is x.
Some(x) == <<x>>
Nothing == <<>>

\* ---------------------------------------------------------------- backend
VARIABLES
    db,       \* Redis: key -> hash (field -> bytes), for the keys that exist
    ttl,      \* Redis: key -> seconds left, or NoExpiry
    pc,       \* per caller: the await its coroutine is suspended at
    loc,      \* per caller: the locals of its coroutine
    ret,      \* per caller: what its last call returned, yielded or raised
    nops,     \* calls started so far
    wlog,     \* history: key -> the call whose HSET landed on it last
    age,      \* history: key -> seconds since the last EXPIRE on it
    cin,      \* codec run: the address given
    ckey,     \* codec run: the key built from it
    cout,     \* codec run: what parsing the key gave
    scope     \* from_conn_info: where the caller's scope is, and its connection

storeVars == <<db, ttl, pc, loc, ret, nops, wlog, age>>
codecVars == <<cin, ckey, cout>>
\* What no store operation touches.
restVars == <<cin, ckey, cout, scope>>
vars == <<db, ttl, pc, loc, ret, nops, wlog, age, cin, ckey, cout, scope>>

\* app_settings.REDIS_TTL_SECONDS, in ticks of the backend's clock.
REDIS_TTL_SECONDS == 2
\* Redis reports -1 for a key with no time-to-live.
NoExpiry == -1
\* The callers that may have a call in flight.
NumProcs == 2
Procs == 1..NumProcs

EmptyHash == <<>>

\* HSETNX in the place of HSET: a field the hash has keeps its value.
HSetNX(hash, mapping) ==
    [f \in (DOMAIN mapping) \cup (DOMAIN hash) |->
        IF f \in DOMAIN hash THEN hash[f] ELSE mapping[f]]

\* HSET key field value [field value ...]: sets the given fields, keeps the others.
HSet(hash, mapping) ==
    [f \in (DOMAIN mapping) \cup (DOMAIN hash) |->
        IF f \in DOMAIN mapping THEN mapping[f] ELSE hash[f]]

\* The store after HSET key mapping: a new key has no time-to-live, an existing
\* key keeps the one it has.
conn_hset_db(key, mapping) ==
    IF key \in DOMAIN db
    THEN [db EXCEPT ![key] = HSet(db[key], mapping)]
    ELSE [k \in (DOMAIN db) \cup {key} |-> IF k = key THEN HSet(EmptyHash, mapping) ELSE db[k]]

conn_hset_ttl(key) ==
    IF key \in DOMAIN db THEN ttl
    ELSE [k \in (DOMAIN db) \cup {key} |-> IF k = key THEN NoExpiry ELSE ttl[k]]

conn_hset_age(key) ==
    IF key \in DOMAIN db THEN age
    ELSE [k \in (DOMAIN db) \cup {key} |-> IF k = key THEN 0 ELSE age[k]]

\* EXPIRE key seconds: no effect on a key that does not exist.
conn_expire(key, seconds) ==
    IF key \in DOMAIN db THEN [ttl EXCEPT ![key] = seconds] ELSE ttl

conn_expire_age(key) ==
    IF key \in DOMAIN db THEN [age EXCEPT ![key] = 0] ELSE age

\* The history after an HSET on key by the call entry.
Logged(key, entry) ==
    [k \in (DOMAIN wlog) \cup {key} |-> IF k = key THEN entry ELSE wlog[k]]

\* HGETALL key: the empty dict for a key that does not exist.
conn_hgetall(key) == IF key \in DOMAIN db THEN db[key] ELSE EmptyHash

\* The KEYS glob: '*' matches any run of characters, the separator included.
RECURSIVE GlobMatch(_, _)
GlobMatch(pattern, s) ==
    IF pattern = <<>> THEN s = <<>>
    ELSE IF Head(pattern) = "*"
         THEN GlobMatch(Tail(pattern), s) \/ (s # <<>> /\ GlobMatch(pattern, Tail(s)))
         ELSE s # <<>> /\ Head(s) = Head(pattern) /\ GlobMatch(Tail(pattern), Tail(s))

conn_keys(pattern) == {k \in DOMAIN db : GlobMatch(pattern, k)}

\* The keys of a set in ascending str order.
RECURSIVE SortedKeys(_)
SortedKeys(S) ==
    IF S = {} THEN <<>>
    ELSE LET m == CHOOSE x \in S : \A y \in S \ {x} : StrLess(x, y)
         IN <<m>> \o SortedKeys(S \ {m})

RECURSIVE AllOrders(_)
AllOrders(S) ==
    IF S = {} THEN {<<>>}
    ELSE UNION {{<<x>> \o q : q \in AllOrders(S \ {x})} : x \in S}

\* Up to this many keys a scan may come back in any order; above it, in any
\* rotation of the ascending or the descending order.
MaxScanPerm == 3

Rotations(seq) ==
    {SubSeq(seq, i, Len(seq)) \o SubSeq(seq, 1, i - 1) : i \in 1..Len(seq)}

Reverse(seq) == [i \in 1..Len(seq) |-> seq[Len(seq) + 1 - i]]

\* The orders KEYS may return a set of keys in (Redis promises none).
ScanOrders(S) ==
    IF Cardinality(S) <= MaxScanPerm THEN AllOrders(S)
    ELSE Rotations(SortedKeys(S)) \cup Rotations(Reverse(SortedKeys(S)))

\* The backend's clock: one second passes, keys whose time-to-live runs out go.
Tick ==
    /\ \E k \in DOMAIN db : ttl[k] # NoExpiry
    /\ LET gone == {k \in DOMAIN db : ttl[k] = 1}
           kept == (DOMAIN db) \ gone
       IN /\ db' = [k \in kept |-> db[k]]
          /\ ttl' = [k \in kept |-> IF ttl[k] = NoExpiry THEN NoExpiry ELSE ttl[k] - 1]
          /\ age' = [k \in kept |-> age[k] + 1]
          /\ wlog' = [k \in kept |-> wlog[k]]
    /\ UNCHANGED <<pc, loc, ret, nops, restVars>>

\* ------------------------------------------------------- pure helpers
\* The items as the scan gave them: what aget_tuple would fetch were the sort
\* by idx left out.
InScanOrder(items) == items

\* sorted(zip(matching_keys, parsed_keys), key=lambda x: x[1]["idx"]): ascending
\* by the str idx, equal keys in the order given (the sort is stable).
RECURSIVE SortedByIdx(_)
SortedByIdx(items) ==
    IF items = <<>> THEN <<>>
    ELSE LET front == SortedByIdx(SubSeq(items, 1, Len(items) - 1))
             x == items[Len(items)]
             n == Cardinality({i \in 1..Len(front) : ~StrLess(x.parsed.idx, front[i].parsed.idx)})
         IN SubSeq(front, 1, n) \o <<x>> \o SubSeq(front, n + 1, Len(front))

\* sorted(keys, key=checkpoint_id, reverse=True): descending, equal keys in the
\* order given.
RECURSIVE SortedByCheckpointIdDesc(_)
SortedByCheckpointIdDesc(keys) ==
    IF keys = <<>> THEN <<>>
    ELSE LET front == SortedByCheckpointIdDesc(SubSeq(keys, 1, Len(keys) - 1))
             x == keys[Len(keys)]
             id(k) == _parse_redis_checkpoint_key(k).checkpoint_id
             n == Cardinality({i \in 1..Len(front) : ~StrLess(id(front[i]), id(x))})
         IN SubSeq(front, 1, n) \o <<x>> \o SubSeq(front, n + 1, Len(front))

\* before and limit are Optional: Nothing or Some(config), Nothing or Some(n).
_filter_keys(keys, before, limit) ==
    LET kept == IF before # Nothing
                THEN LET Older(k) == StrLess(_parse_redis_checkpoint_key(k).checkpoint_id,
                                             before[1].checkpoint_id)
                     IN SelectSeq(keys, Older)
                ELSE keys
        sorted == SortedByCheckpointIdDesc(kept)
    IN IF limit # Nothing /\ limit[1] # 0
       THEN SubSeq(sorted, 1, IF limit[1] < Len(sorted) THEN limit[1] ELSE Len(sorted))
       ELSE sorted

\* A serialisation that puts the first write at every position.
_dump_first_write(writes) ==
    [i \in 1..Len(writes) |->
        [channel |-> Encode(writes[1][1]),
         type |-> Encode(dumps_typed(writes[1][2])[1]),
         value |-> dumps_typed(writes[1][2])[2]]]

\* writes is a sequence of <<channel, value>>.
_dump_writes(writes) ==
    [i \in 1..Len(writes) |->
        [channel |-> Encode(writes[i][1]),
         type |-> Encode(dumps_typed(writes[i][2])[1]),
         value |-> dumps_typed(writes[i][2])[2]]]

\* task_id_to_data is the dict in insertion order: a sequence of
\* [task_id, idx, data]. Raises KeyError on a hash without the fields.
_load_writes(task_id_to_data) ==
    IF \E i \in 1..Len(task_id_to_data) :
          {"channel", "type", "value"} \ DOMAIN task_id_to_data[i].data # {}
    THEN KeyError
    ELSE [value |->
            [i \in 1..Len(task_id_to_data) |->
                <<task_id_to_data[i].task_id,
                  Decode(task_id_to_data[i].data.channel),
                  loads_typed(<<Decode(task_id_to_data[i].data.type),
                                task_id_to_data[i].data.value>>)>>]]

\* A dict keyed by idx alone: the write of one task takes the place of the
\* write another task has at the same idx.
DictSetByIdx(d, task_id, idx, data) ==
    IF \E i \in 1..Len(d) : d[i].idx = idx
    THEN [i \in 1..Len(d) |->
            IF d[i].idx = idx
            THEN [task_id |-> task_id, idx |-> idx, data |-> data] ELSE d[i]]
    ELSE Append(d, [task_id |-> task_id, idx |-> idx, data |-> data])

\* d[(task_id, idx)] = data on a dict kept as a sequence: a key already there
\* keeps its place and takes the new value.
DictSet(d, task_id, idx, data) ==
    IF \E i \in 1..Len(d) : d[i].task_id = task_id /\ d[i].idx = idx
    THEN [i \in 1..Len(d) |->
            IF d[i].task_id = task_id /\ d[i].idx = idx
            THEN [task_id |-> task_id, idx |-> idx, data |-> data] ELSE d[i]]
    ELSE Append(d, [task_id |-> task_id, idx |-> idx, data |-> data])

\* Returns [value |-> Nothing] (None), [value |-> Some(tuple)], or raises.
_parse_redis_checkpoint_data(key, data, pending_writes) ==
    IF DOMAIN data = {} THEN [value |-> Nothing]
    ELSE LET parsed_key == _parse_redis_checkpoint_key(key) IN
         IF IsError(parsed_key) THEN parsed_key
         ELSE IF {"type", "checkpoint", "metadata"} \ DOMAIN data # {} THEN KeyError
         ELSE LET parent_checkpoint_id ==
                      IF "parent_checkpoint_id" \in DOMAIN data
                      THEN Decode(data.parent_checkpoint_id) ELSE <<>>
              IN [value |-> Some(
                    [config |-> [thread_id |-> parsed_key.thread_id,
                                 checkpoint_ns |-> parsed_key.checkpoint_ns,
                                 checkpoint_id |-> parsed_key.checkpoint_id],
                     checkpoint |-> loads_typed(<<Decode(data.type), data.checkpoint>>),
                     metadata |-> loads(Decode(data.metadata)),
                     parent_config |->
                        IF parent_checkpoint_id # <<>>
                        THEN Some([thread_id |-> parsed_key.thread_id,
                                   checkpoint_ns |-> parsed_key.checkpoint_ns,
                                   checkpoint_id |-> parent_checkpoint_id])
                        ELSE Nothing,
                     pending_writes |-> pending_writes])]

\* max(all_keys, key=checkpoint_id): the first key, in the order given, that no
\* other key is greater than.
latest_key(all_keys) ==
    LET id(k) == _parse_redis_checkpoint_key(k).checkpoint_id
        first == CHOOSE i \in 1..Len(all_keys) :
                /\ \A j \in 1..Len(all_keys) : ~StrLess(id(all_keys[i]), id(all_keys[j]))
                /\ \A j \in 1..(i - 1) : StrLess(id(all_keys[j]), id(all_keys[i]))
    IN all_keys[first]

\* ------------------------------------------------------------- callers
\* What a caller holds of its last call: still running, returned, or raised.
Running(op, args) == [op |-> op, args |-> args, status |-> "running", value |-> <<>>]
Returned(op, args, value) == [op |-> op, args |-> args, status |-> "returned", value |-> value]
Raised(op, args, e) == [op |-> op, args |-> args, status |-> "raised", value |-> <<e>>]
NoCall == [op |-> "none", args |-> <<>>, status |-> "none", value |-> <<>>]
NoLocals == [op |-> "none"]

\* The callers between the HSET and the EXPIRE of a write to key.
InFlightOn(key) ==
    {q \in Procs : pc[q] \in {"aput_expire", "aput_writes_expire"} /\ loc[q].key = key}

\* ---------------------------------------------------------------- aput
\* The record aput writes (lines 222-232).
aput_data(config, checkpoint, metadata) ==
    [checkpoint |-> dumps_typed(checkpoint)[2],
     type |-> Encode(dumps_typed(checkpoint)[1]),
     checkpoint_id |-> Encode(checkpoint.id),
     metadata |-> dumps(metadata),
     parent_checkpoint_id |->
        Encode(IF config.checkpoint_id # <<>> THEN config.checkpoint_id ELSE <<>>)]

\* An EXPIRE that reaches every key of the backend, not only the one written:
\* the others are left one second.
expire_every_key(key) ==
    [k \in DOMAIN ttl |-> IF k = key THEN REDIS_TTL_SECONDS ELSE 1]

\* The time-to-live aput and aput_writes give the key they wrote.
expire_after_write(key) == conn_expire(key, REDIS_TTL_SECONDS)

\* aput up to its first await done: conn.hset(key, mapping=data).
aput_hset(p, D) ==
    /\ pc[p] = "idle"
    /\ nops < D.maxops
    /\ \E thread_id \in D.threads, checkpoint_ns \in D.namespaces, id \in D.ids,
          given \in D.puts :
         LET config == [thread_id |-> thread_id, checkpoint_ns |-> checkpoint_ns,
                        checkpoint_id |-> given.parent]
             checkpoint == [id |-> id, state |-> given.state]
             metadata == given.metadata
             key == _make_redis_checkpoint_key(thread_id, checkpoint_ns, checkpoint.id)
             args == [config |-> config, checkpoint |-> checkpoint, metadata |-> metadata]
         IN /\ db' = conn_hset_db(key, aput_data(config, checkpoint, metadata))
            /\ ttl' = conn_hset_ttl(key)
            /\ age' = conn_hset_age(key)
            /\ wlog' = Logged(key, [op |-> "aput", by |-> p, args |-> args, idx |-> 0,
                                    racing |-> InFlightOn(key) # {}])
            /\ loc' = [loc EXCEPT ![p] = [op |-> "aput", key |-> key, args |-> args]]
            /\ ret' = [ret EXCEPT ![p] = Running("aput", args)]
    /\ pc' = [pc EXCEPT ![p] = "aput_expire"]
    /\ nops' = nops + 1
    /\ UNCHANGED restVars

\* conn.expire(key, ttl), and the return of the config of the new checkpoint.
aput_expire(p) ==
    /\ pc[p] = "aput_expire"
    /\ ttl' = expire_after_write(loc[p].key)
    /\ age' = conn_expire_age(loc[p].key)
    /\ ret' = [ret EXCEPT ![p] =
                 Returned("aput", loc[p].args,
                          [thread_id |-> loc[p].args.config.thread_id,
                           checkpoint_ns |-> loc[p].args.config.checkpoint_ns,
                           checkpoint_id |-> loc[p].args.checkpoint.id])]
    /\ pc' = [pc EXCEPT ![p] = "idle"]
    /\ loc' = [loc EXCEPT ![p] = NoLocals]
    /\ UNCHANGED <<db, nops, wlog, restVars>>

\* --------------------------------------------------------- aput_writes
\* A key that leaves the position out: every write of the call goes to idx 0.
aput_writes_key_zero(args, idx) ==
    _make_redis_checkpoint_writes_key(args.config.thread_id, args.config.checkpoint_ns,
                                      args.config.checkpoint_id, args.task_id, 0)

\* The key of the write at position idx (lines 264-266).
aput_writes_key(args, idx) ==
    _make_redis_checkpoint_writes_key(args.config.thread_id, args.config.checkpoint_ns,
                                      args.config.checkpoint_id, args.task_id, idx)

\* conn.hset of the write at position l.idx of the loop.
aput_writes_do_hset(p, l) ==
    LET key == aput_writes_key(l.args, l.idx) IN
    /\ db' = conn_hset_db(key, _dump_writes(l.args.writes)[l.idx + 1])
    /\ ttl' = conn_hset_ttl(key)
    /\ age' = conn_hset_age(key)
    /\ wlog' = Logged(key, [op |-> "aput_writes", by |-> p, args |-> l.args, idx |-> l.idx,
                            racing |-> InFlightOn(key) # {}])
    /\ loc' = [loc EXCEPT ![p] = [l EXCEPT !.key = key]]
    /\ pc' = [pc EXCEPT ![p] = "aput_writes_expire"]

\* aput_writes up to its first await done; with no writes it returns at once.
aput_writes_call(p, D) ==
    /\ pc[p] = "idle"
    /\ nops < D.maxops
    /\ \E thread_id \in D.threads, checkpoint_ns \in D.namespaces, checkpoint_id \in D.ids,
          writes \in D.writes, task_id \in D.tasks :
         LET config == [thread_id |-> thread_id, checkpoint_ns |-> checkpoint_ns,
                        checkpoint_id |-> checkpoint_id]
             args == [config |-> config, writes |-> writes, task_id |-> task_id]
         IN IF writes = <<>>
            THEN /\ ret' = [ret EXCEPT ![p] = Returned("aput_writes", args, config)]
                 /\ UNCHANGED <<db, ttl, age, wlog, loc, pc>>
            ELSE /\ aput_writes_do_hset(p, [op |-> "aput_writes", args |-> args, idx |-> 0,
                                             key |-> <<>>])
                 /\ ret' = [ret EXCEPT ![p] = Running("aput_writes", args)]
    /\ nops' = nops + 1
    /\ UNCHANGED restVars

\* The next turn of the loop: conn.hset of the next write.
aput_writes_hset(p) ==
    /\ pc[p] = "aput_writes_hset"
    /\ aput_writes_do_hset(p, loc[p])
    /\ UNCHANGED <<ret, nops, restVars>>

\* conn.expire of the key just written; after the last write, return config.
aput_writes_expire(p) ==
    /\ pc[p] = "aput_writes_expire"
    /\ ttl' = expire_after_write(loc[p].key)
    /\ age' = conn_expire_age(loc[p].key)
    /\ IF loc[p].idx + 1 < Len(loc[p].args.writes)
       THEN /\ loc' = [loc EXCEPT ![p].idx = loc[p].idx + 1]
            /\ pc' = [pc EXCEPT ![p] = "aput_writes_hset"]
            /\ ret' = ret
       ELSE /\ loc' = [loc EXCEPT ![p] = NoLocals]
            /\ pc' = [pc EXCEPT ![p] = "idle"]
            /\ ret' = [ret EXCEPT ![p] = Returned("aput_writes", loc[p].args, loc[p].args.config)]
    /\ UNCHANGED <<db, nops, wlog, restVars>>

\* ----------------------------------------------------------- aget_tuple
\* Lines 308-319, once every HGETALL of the dict comprehension is in.
aget_tuple_result(l) ==
    LET pending_writes == _load_writes(l.task_id_to_data) IN
    IF IsError(pending_writes) THEN pending_writes
    ELSE _parse_redis_checkpoint_data(l.checkpoint_key, l.checkpoint_data,
                                      Some(pending_writes.value))

\* The return or the raise of aget_tuple.
aget_tuple_finish(p, l) ==
    /\ ret' = [ret EXCEPT ![p] =
                 IF IsError(aget_tuple_result(l))
                 THEN Raised("aget_tuple", l.args, aget_tuple_result(l))
                 ELSE Returned("aget_tuple", l.args, aget_tuple_result(l).value)]
    /\ pc' = [pc EXCEPT ![p] = "idle"]
    /\ loc' = [loc EXCEPT ![p] = NoLocals]

\* checkpoint_data = await self.conn.hgetall(checkpoint_key)  (line 294).
aget_tuple_do_hgetall(p, l) ==
    /\ loc' = [loc EXCEPT ![p] = [l EXCEPT !.checkpoint_data = conn_hgetall(l.checkpoint_key)]]
    /\ pc' = [pc EXCEPT ![p] = "aget_tuple_keys"]

\* aget_tuple up to its first await done: with a checkpoint_id the HGETALL of
\* its key, without one the KEYS scan of _aget_checkpoint_key and the choice
\* of the latest key (None when the scan is empty).
aget_tuple_call(p, D) ==
    /\ pc[p] = "idle"
    /\ nops < D.maxops
    /\ \E thread_id \in D.threads, checkpoint_ns \in D.namespaces, checkpoint_id \in D.gets :
         LET args == [thread_id |-> thread_id, checkpoint_ns |-> checkpoint_ns,
                      checkpoint_id |-> checkpoint_id]
             l == [op |-> "aget_tuple", args |-> args, checkpoint_key |-> <<>>,
                   checkpoint_data |-> EmptyHash, todo |-> <<>>, task_id_to_data |-> <<>>]
         IN IF checkpoint_id # <<>>
            THEN /\ aget_tuple_do_hgetall(p,
                       [l EXCEPT !.checkpoint_key =
                           _make_redis_checkpoint_key(thread_id, checkpoint_ns, checkpoint_id)])
                 /\ ret' = [ret EXCEPT ![p] = Running("aget_tuple", args)]
            ELSE \E all_keys \in ScanOrders(conn_keys(
                        _make_redis_checkpoint_key(thread_id, checkpoint_ns, Star))) :
                    IF all_keys = <<>>
                    THEN /\ ret' = [ret EXCEPT ![p] = Returned("aget_tuple", args, Nothing)]
                         /\ UNCHANGED <<pc, loc>>
                    ELSE /\ loc' = [loc EXCEPT ![p] =
                                      [l EXCEPT !.checkpoint_key = latest_key(all_keys)]]
                         /\ pc' = [pc EXCEPT ![p] = "aget_tuple_hgetall"]
                         /\ ret' = [ret EXCEPT ![p] = Running("aget_tuple", args)]
    /\ nops' = nops + 1
    /\ UNCHANGED <<db, ttl, age, wlog, restVars>>

\* The HGETALL of the latest key found by the scan.
aget_tuple_hgetall(p) ==
    /\ pc[p] = "aget_tuple_hgetall"
    /\ aget_tuple_do_hgetall(p, loc[p])
    /\ UNCHANGED <<db, ttl, age, wlog, ret, nops, restVars>>

\* matching_keys = await self.conn.keys(pattern=writes_key), parsed and sorted
\* by idx (lines 297-314); with no key the call finishes here.
aget_tuple_keys(p) ==
    /\ pc[p] = "aget_tuple_keys"
    /\ LET l == loc[p]
           checkpoint_id ==
               IF l.args.checkpoint_id # <<>> THEN l.args.checkpoint_id
               ELSE _parse_redis_checkpoint_key(l.checkpoint_key).checkpoint_id
           writes_key == _make_redis_checkpoint_writes_key(
                             l.args.thread_id, l.args.checkpoint_ns, checkpoint_id, Star, NoIdx)
       IN \E matching_keys \in ScanOrders(conn_keys(writes_key)) :
            LET zipped == [i \in 1..Len(matching_keys) |->
                              [key |-> matching_keys[i],
                               parsed |-> _parse_redis_checkpoint_writes_key(matching_keys[i])]]
            IN IF zipped = <<>>
               THEN aget_tuple_finish(p, l)
               ELSE /\ loc' = [loc EXCEPT ![p] = [l EXCEPT !.todo = SortedByIdx(zipped)]]
                    /\ pc' = [pc EXCEPT ![p] = "aget_tuple_writes"]
                    /\ ret' = ret
    /\ UNCHANGED <<db, ttl, age, wlog, nops, restVars>>

\* One await self.conn.hgetall(key) of the dict comprehension; after the last
\* one, _load_writes and _parse_redis_checkpoint_data.
aget_tuple_writes(p) ==
    /\ pc[p] = "aget_tuple_writes"
    /\ LET l == loc[p]
           item == Head(l.todo)
           next == [l EXCEPT !.todo = Tail(l.todo),
                             !.task_id_to_data =
                                 DictSet(l.task_id_to_data, item.parsed.task_id,
                                         item.parsed.idx, conn_hgetall(item.key))]
       IN IF next.todo = <<>>
          THEN aget_tuple_finish(p, next)
          ELSE /\ loc' = [loc EXCEPT ![p] = next]
               /\ UNCHANGED <<pc, ret>>
    /\ UNCHANGED <<db, ttl, age, wlog, nops, restVars>>

\* ----------------------------------------------------------------- alist
\* A loop that gives up what it has yielded when it meets a record that is
\* gone or lacks a field.
alist_step_forgetful(l, yielded) ==
    LET data == conn_hgetall(Head(l.keys)) IN
    IF DOMAIN data # {} /\ "checkpoint" \in DOMAIN data /\ "metadata" \in DOMAIN data
    THEN Append(yielded, _parse_redis_checkpoint_data(Head(l.keys), data, Nothing).value[1])
    ELSE <<>>

\* One turn of the loop of alist: HGETALL of the next key, and the yield of
\* its tuple when the record has its checkpoint and metadata fields.
alist_step(l, yielded) ==
    LET data == conn_hgetall(Head(l.keys)) IN
    IF DOMAIN data # {} /\ "checkpoint" \in DOMAIN data /\ "metadata" \in DOMAIN data
    THEN Append(yielded, _parse_redis_checkpoint_data(Head(l.keys), data, Nothing).value[1])
    ELSE yielded

\* alist up to its first await done: the KEYS scan, filtered, sorted, cut.
\* Of the list the loop goes through, scanned is the whole and keys what is
\* still to fetch.
alist_call(p, D) ==
    /\ pc[p] = "idle"
    /\ nops < D.maxops
    /\ \E thread_id \in D.threads, checkpoint_ns \in D.namespaces,
          before \in D.befores, limit \in D.limits :
         LET args == [thread_id |-> thread_id, checkpoint_ns |-> checkpoint_ns,
                      before |-> before, limit |-> limit]
         IN \E scanned \in ScanOrders(conn_keys(
                   _make_redis_checkpoint_key(thread_id, checkpoint_ns, Star))) :
              LET keys == _filter_keys(scanned, before, limit) IN
              IF keys = <<>>
              THEN /\ ret' = [ret EXCEPT ![p] = Returned("alist", args, <<>>)]
                   /\ UNCHANGED <<pc, loc>>
              ELSE /\ loc' = [loc EXCEPT ![p] = [op |-> "alist", args |-> args, keys |-> keys,
                                                 scanned |-> keys]]
                   /\ pc' = [pc EXCEPT ![p] = "alist_hgetall"]
                   /\ ret' = [ret EXCEPT ![p] = Running("alist", args)]
    /\ nops' = nops + 1
    /\ UNCHANGED <<db, ttl, age, wlog, restVars>>

\* data = await self.conn.hgetall(key) for the next key; the generator ends
\* after the last key.
alist_hgetall(p) ==
    /\ pc[p] = "alist_hgetall"
    /\ LET l == loc[p]
           yielded == alist_step(l, ret[p].value)
       IN IF Tail(l.keys) = <<>>
          THEN /\ ret' = [ret EXCEPT ![p] = Returned("alist", l.args, yielded)]
               /\ pc' = [pc EXCEPT ![p] = "idle"]
               /\ loc' = [loc EXCEPT ![p] = NoLocals]
          ELSE /\ ret' = [ret EXCEPT ![p].value = yielded]
               /\ loc' = [loc EXCEPT ![p].keys = Tail(l.keys)]
               /\ pc' = pc
    /\ UNCHANGED <<db, ttl, age, wlog, nops, restVars>>

\* ------------------------------------------------------- aborted calls
\* A caller gives up a call that is suspended at an await (cancellation, a
\* timeout): the coroutine is unwound, what it has sent to the backend stays.
CancelledError == Raise("CancelledError")

Unwound(p) ==
    /\ pc' = [pc EXCEPT ![p] = "idle"]
    /\ loc' = [loc EXCEPT ![p] = NoLocals]
    /\ ret' = [ret EXCEPT ![p] = Raised(ret[p].op, ret[p].args, CancelledError)]

abort(p) ==
    /\ pc[p] # "idle"
    /\ Unwound(p)
    /\ UNCHANGED <<db, ttl, age, wlog, nops, restVars>>

\* ------------------------------------------------------ from_conn_info
\* The scope of  async with cls.from_conn_info(...) as saver:  (lines 182-193
\* for AsyncRedisSaver, 385-396 for AsyncRedisManager; get_redis_saver and
\* get_redis_manager are such scopes).
NoScope == [cls |-> "none", at |-> "outside", conn |-> "None", closes |-> 0, raised |-> FALSE]

Classes == {"AsyncRedisSaver", "AsyncRedisManager"}

\* The one caller whose scope it is.
Owner == 1

\* conn = None; conn = AsyncRedis(...); yield cls(conn).  The constructor may
\* raise, and conn is None still when finally runs.
from_conn_info ==
    /\ scope.at = "outside"
    /\ \E cls \in Classes, constructed \in BOOLEAN :
         scope' = IF constructed
                  THEN [scope EXCEPT !.cls = cls, !.at = "body", !.conn = "open"]
                  ELSE [scope EXCEPT !.cls = cls, !.at = "finally", !.raised = TRUE]
    /\ UNCHANGED <<storeVars, cin, ckey, cout>>

\* The caller's block runs to its end.
scope_ends ==
    /\ scope.at = "body"
    /\ pc[Owner] = "idle"
    /\ scope' = [scope EXCEPT !.at = "finally"]
    /\ UNCHANGED <<storeVars, cin, ckey, cout>>

\* An error leaves the caller's block: one a store call raised, or any other,
\* a cancellation while a call is suspended included.
scope_raises ==
    /\ scope.at = "body"
    /\ IF pc[Owner] # "idle" THEN Unwound(Owner) ELSE UNCHANGED <<pc, loc, ret>>
    /\ scope' = [scope EXCEPT !.at = "finally", !.raised = TRUE]
    /\ UNCHANGED <<db, ttl, age, wlog, nops, cin, ckey, cout>>

\* A finally that leaves the scope without closing the connection.
aclose_never(sc) == [sc EXCEPT !.at = "exited"]

\* finally: if conn: await conn.aclose()
aclose_if_conn(sc) ==
    IF sc.conn # "None"
    THEN [sc EXCEPT !.conn = "closed", !.closes = sc.closes + 1, !.at = "exited"]
    ELSE [sc EXCEPT !.at = "exited"]

from_conn_info_finally ==
    /\ scope.at = "finally"
    /\ scope' = aclose_if_conn(scope)
    /\ UNCHANGED <<storeVars, cin, ckey, cout>>

\* -------------------------------------------------------------- codec runs
\* Every str over the separator and one other character, up to MaxStrLen long.
RECURSIVE StrsOfLen(_)
StrsOfLen(n) ==
    IF n = 0 THEN {<<>>}
    ELSE {<<c>> \o r : c \in {"a", REDIS_KEY_SEPARATOR}, r \in StrsOfLen(n - 1)}

Strs(lo) == UNION {StrsOfLen(n) : n \in lo..MaxStrLen}

NoKey == <<>>
NoParse == [op |-> "none"]

CodecInit ==
    /\ cin \in [thread_id : Strs(1), checkpoint_ns : Strs(0), checkpoint_id : Strs(1),
                task_id : Strs(1), idx : 0..MaxCodecIdx]
    /\ ckey = [kind |-> "none", key |-> NoKey]
    /\ cout = NoParse

make_checkpoint_key ==
    /\ ckey.kind = "none"
    /\ ckey' = [kind |-> "checkpoint",
                key |-> _make_redis_checkpoint_key(cin.thread_id, cin.checkpoint_ns,
                                                   cin.checkpoint_id)]
    /\ UNCHANGED <<cin, cout, storeVars, scope>>

make_writes_key ==
    /\ ckey.kind = "none"
    /\ ckey' = [kind |-> "writes",
                key |-> _make_redis_checkpoint_writes_key(cin.thread_id, cin.checkpoint_ns,
                                                          cin.checkpoint_id, cin.task_id, cin.idx)]
    /\ UNCHANGED <<cin, cout, storeVars, scope>>

parse_checkpoint_key ==
    /\ ckey.kind = "checkpoint"
    /\ cout = NoParse
    /\ cout' = _parse_redis_checkpoint_key(ckey.key)
    /\ UNCHANGED <<cin, ckey, storeVars, scope>>

parse_writes_key ==
    /\ ckey.kind = "writes"
    /\ cout = NoParse
    /\ cout' = _parse_redis_checkpoint_writes_key(ckey.key)
    /\ UNCHANGED <<cin, ckey, storeVars, scope>>

\* ------------------------------------------------------- specifications
StoreInit ==
    /\ db = <<>>
    /\ ttl = <<>>
    /\ age = <<>>
    /\ wlog = <<>>
    /\ pc = [p \in Procs |-> "idle"]
    /\ loc = [p \in Procs |-> NoLocals]
    /\ ret = [p \in Procs |-> NoCall]
    /\ nops = 0

CodecIdle ==
    /\ cin = [thread_id |-> <<"t">>, checkpoint_ns |-> <<>>, checkpoint_id |-> <<"c">>,
              task_id |-> <<"k">>, idx |-> 0]
    /\ ckey = [kind |-> "none", key |-> NoKey]
    /\ cout = NoParse

\* Calls in all of the concurrent runs.
MaxOps == 2

\* What the callers of the concurrent runs pass: one thread and namespace,
\* one checkpoint id, two checkpoints that differ in payload, metadata and
\* parent.
MainDomain ==
    [threads |-> {<<"t">>},
     namespaces |-> {<<"a">>},
     ids |-> {<<"c", "1">>},
     puts |-> {[state |-> "s1", metadata |-> "m1", parent |-> <<>>],
               [state |-> "s2", metadata |-> "m2", parent |-> <<"c", "0">>]},
     tasks |-> {<<"k">>},
     writes |-> {<< <<"chA", "v0">>, <<"chB", "v1">> >>},
     gets |-> {<<>>, <<"c", "1">>},
     befores |-> {Nothing},
     limits |-> {Nothing},
     maxops |-> MaxOps]

ScopeIdle == scope = NoScope

Init == StoreInit /\ CodecIdle /\ ScopeIdle

Step(p, D) ==
    \/ aput_hset(p, D)
    \/ aput_expire(p)
    \/ aput_writes_call(p, D)
    \/ aput_writes_hset(p)
    \/ aput_writes_expire(p)
    \/ aget_tuple_call(p, D)
    \/ aget_tuple_hgetall(p)
    \/ aget_tuple_keys(p)
    \/ aget_tuple_writes(p)
    \/ alist_call(p, D)
    \/ alist_hgetall(p)

Next == (\E p \in Procs : Step(p, MainDomain)) \/ Tick

Spec == Init /\ [][Next]_vars

InitCodec == StoreInit /\ CodecInit /\ ScopeIdle

NextCodec ==
    \/ make_checkpoint_key
    \/ make_writes_key
    \/ parse_checkpoint_key
    \/ parse_writes_key

SpecCodec == InitCodec /\ [][NextCodec]_vars

\* Calls in all of the sequential runs.
MaxSeqOps == 3

\* What the one caller of the sequential runs passes: thread ids and
\* namespaces with and without the separator, two checkpoint ids.
SeqDomain ==
    [threads |-> {<<"t">>, <<"t", ":", "a">>},
     namespaces |-> {<<"a">>, <<"a", ":", "a">>},
     ids |-> {<<"c", "1">>, <<"c", "2">>},
     puts |-> {[state |-> "s1", metadata |-> "m1", parent |-> <<>>],
               [state |-> "s2", metadata |-> "m2", parent |-> <<"c", "1">>]},
     tasks |-> {<<"k">>},
     writes |-> {<< <<"chA", "v0">>, <<"chB", "v1">> >>},
     gets |-> {<<>>, <<"c", "1">>, <<"c", "2">>},
     befores |-> {Nothing, Some([checkpoint_id |-> <<"c", "2">>])},
     limits |-> {Nothing, Some(0), Some(1)},
     maxops |-> MaxSeqOps]

NextSeq == \E p \in {1} : Step(p, SeqDomain)

SpecSeq == Init /\ [][NextSeq]_vars

\* A long PutWrites and the read of it: one address, one caller.
MaxWritesOps == 3

\* The writes chA..chK of one call, eleven of them, and a call of two.
ElevenWrites ==
    << <<"ch0", "v0">>, <<"ch1", "v1">>, <<"ch2", "v2">>, <<"ch3", "v3">>,
       <<"ch4", "v4">>, <<"ch5", "v5">>, <<"ch6", "v6">>, <<"ch7", "v7">>,
       <<"ch8", "v8">>, <<"ch9", "v9">>, <<"ch10", "v10">> >>

WritesDomain ==
    [threads |-> {<<"t">>},
     namespaces |-> {<<>>},
     ids |-> {<<"c", "1">>},
     puts |-> {[state |-> "s1", metadata |-> "m1", parent |-> <<>>]},
     tasks |-> {<<"k">>},
     writes |-> {ElevenWrites, SubSeq(ElevenWrites, 1, 2)},
     gets |-> {<<>>, <<"c", "1">>},
     befores |-> {Nothing},
     limits |-> {Nothing},
     maxops |-> MaxWritesOps]

NextWrites == \E p \in {1} : Step(p, WritesDomain)

SpecWrites == Init /\ [][NextWrites]_vars

\* The scope of from_conn_info around the calls of its one caller.
MaxScopeOps == 2

ScopeDomain == [MainDomain EXCEPT !.maxops = MaxScopeOps]

NextScope ==
    \/ from_conn_info
    \/ (scope.at = "body" /\ Step(Owner, ScopeDomain))
    \/ scope_ends
    \/ scope_raises
    \/ from_conn_info_finally

\* The event loop runs the finally of a scope that is being left.
SpecScope == Init /\ [][NextScope]_vars /\ WF_vars(from_conn_info_finally)

\* The concurrent runs with callers that may give up a call at an await.
NextAbort == (\E p \in Procs : Step(p, MainDomain) \/ abort(p)) \/ Tick

\* The steps of a call under way.
Resume(p) ==
    \/ aput_expire(p)
    \/ aput_writes_hset(p)
    \/ aput_writes_expire(p)
    \/ aget_tuple_hgetall(p)
    \/ aget_tuple_keys(p)
    \/ aget_tuple_writes(p)
    \/ alist_hgetall(p)

\* The backend's clock runs, and the event loop resumes every call that is
\* not given up.
SpecAbort ==
    Init /\ [][NextAbort]_vars /\ WF_vars(Tick) /\ \A p \in Procs : WF_vars(Resume(p))

\* One caller that puts checkpoints and lists them while the clock runs.
MaxListOps == 3

ListDomain ==
    [MainDomain EXCEPT !.ids = {<<"c", "1">>, <<"c", "2">>},
                       !.puts = {[state |-> "s1", metadata |-> "m1", parent |-> <<>>]},
                       !.maxops = MaxListOps]

NextList ==
    \/ aput_hset(Owner, ListDomain)
    \/ aput_expire(Owner)
    \/ alist_call(Owner, ListDomain)
    \/ alist_hgetall(Owner)
    \/ Tick

SpecList == Init /\ [][NextList]_vars

\* Two callers that write pending writes, at once or in turn, and read the
\* checkpoint once every write call has returned; nothing expires meanwhile.
TwoCallers == {1, 2}

\* Write calls (aput, aput_writes) and calls in all of these runs.
MaxPendWrites == 3
MaxPendOps == 5

PendDomain ==
    [MainDomain EXCEPT !.puts = {[state |-> "s1", metadata |-> "m1", parent |-> <<>>]},
                       !.tasks = {<<"i">>, <<"k">>},
                       !.writes = {<< <<"chA", "v0">>, <<"chB", "v1">> >>,
                                   << <<"chC", "v2">> >>,
                                   << <<"chD", "v3">>, <<"chE", "v4">> >>},
                       !.gets = {<<"c", "1">>},
                       !.maxops = MaxPendOps]

Quiet == \A q \in Procs : pc[q] = "idle"

NextPend ==
    \E p \in TwoCallers :
        \/ (nops < MaxPendWrites /\ aput_hset(p, PendDomain))
        \/ aput_expire(p)
        \/ (nops < MaxPendWrites /\ aput_writes_call(p, PendDomain))
        \/ aput_writes_hset(p)
        \/ aput_writes_expire(p)
        \/ (nops >= MaxPendWrites /\ Quiet /\ aget_tuple_call(p, PendDomain))
        \/ aget_tuple_keys(p)
        \/ aget_tuple_writes(p)

SpecPend == Init /\ [][NextPend]_vars

\* Two callers, one of which reads the checkpoint while the other writes its
\* pending writes; nothing expires meanwhile.
MaxRaceOps == 3

RaceDomain ==
    [MainDomain EXCEPT !.puts = {[state |-> "s1", metadata |-> "m1", parent |-> <<>>]},
                       !.writes = {<< <<"chA", "v0">>, <<"chB", "v1">>, <<"chC", "v2">> >>},
                       !.gets = {<<"c", "1">>},
                       !.maxops = MaxRaceOps]

NextRace ==
    \E p \in TwoCallers :
        \/ aput_hset(p, RaceDomain)
        \/ aput_expire(p)
        \/ aput_writes_call(p, RaceDomain)
        \/ aput_writes_hset(p)
        \/ aput_writes_expire(p)
        \/ aget_tuple_call(p, RaceDomain)
        \/ aget_tuple_keys(p)
        \/ aget_tuple_writes(p)

SpecRace == Init /\ [][NextRace]_vars

\* One caller that writes the pending writes of one task again and again and
\* reads the checkpoint; nothing expires meanwhile.
MaxRewriteOps == 4

RewriteDomain == [PendDomain EXCEPT !.tasks = {<<"k">>}, !.maxops = MaxRewriteOps]

NextRewrite ==
    \/ aput_hset(Owner, RewriteDomain)
    \/ aput_expire(Owner)
    \/ aput_writes_call(Owner, RewriteDomain)
    \/ aput_writes_hset(Owner)
    \/ aput_writes_expire(Owner)
    \/ aget_tuple_call(Owner, RewriteDomain)
    \/ aget_tuple_keys(Owner)
    \/ aget_tuple_writes(Owner)

SpecRewrite == Init /\ [][NextRewrite]_vars

\* ================================================================ claims
\* The address a logged write was made under.
Triple(e) ==
    IF e.op = "aput"
    THEN [thread_id |-> e.args.config.thread_id, checkpoint_ns |-> e.args.config.checkpoint_ns,
          checkpoint_id |-> e.args.checkpoint.id]
    ELSE e.args.config

\* The keys holding a checkpoint last written under (thread_id, checkpoint_ns).
StoredUnder(thread_id, checkpoint_ns) ==
    {k \in DOMAIN wlog : /\ wlog[k].op = "aput"
                         /\ Triple(wlog[k]).thread_id = thread_id
                         /\ Triple(wlog[k]).checkpoint_ns = checkpoint_ns}

\* C7: decoding the checkpoint key built from (thread_id, checkpoint_ns,
\* checkpoint_id) recovers that triple, and decoding the writes key built from
\* (thread_id, checkpoint_ns, checkpoint_id, task_id, idx) recovers those five
\* components (idx as the decimal str the key holds), for every str in each place.
C7_KeyRoundTrip ==
    /\ (ckey.kind = "checkpoint" /\ cout # NoParse) =>
          cout = [thread_id |-> cin.thread_id, checkpoint_ns |-> cin.checkpoint_ns,
                  checkpoint_id |-> cin.checkpoint_id]
    /\ (ckey.kind = "writes" /\ cout # NoParse) =>
          cout = [thread_id |-> cin.thread_id, checkpoint_ns |-> cin.checkpoint_ns,
                  checkpoint_id |-> cin.checkpoint_id, task_id |-> cin.task_id,
                  idx |-> IntToStr(cin.idx)]

\* C8: a write never lands on a key that holds the record of another address:
\* the key a Put or PutWrites writes was last written, if at all, under the
\* same (thread_id, checkpoint_ns, checkpoint_id[, task_id, idx]).
C8_AddressUniqueness ==
    [][\A k \in (DOMAIN wlog) \cap (DOMAIN wlog') :
          /\ Triple(wlog'[k]) = Triple(wlog[k])
          /\ wlog'[k].op = "aput_writes" =>
                /\ wlog'[k].args.task_id = wlog[k].args.task_id
                /\ wlog'[k].idx = wlog[k].idx]_vars

\* The checkpoint ids of a set of checkpoint keys, as the log has them.
IdsOf(K) == {Triple(wlog[k]).checkpoint_id : k \in K}

\* The call caller p has just returned from, when it is op.
Done(p, op) == ret[p].op = op /\ ret[p].status = "returned"

\* C1: GetTuple with the (thread_id, checkpoint_ns, checkpoint_id) of a
\* completed Put, nothing else having written that key since, returns a tuple
\* with the checkpoint and the metadata given to Put, a config carrying that
\* same triple, and a parent_config exactly when Put was given a parent id.
C1_RoundTrip ==
    \A p \in Procs :
        (Done(p, "aget_tuple") /\ ret[p].args.checkpoint_id # <<>>) =>
            \A k \in DOMAIN wlog :
                (wlog[k].op = "aput" /\ Triple(wlog[k]) = ret[p].args) =>
                    /\ ret[p].value # Nothing
                    /\ ret[p].value[1].checkpoint = wlog[k].args.checkpoint
                    /\ ret[p].value[1].metadata = wlog[k].args.metadata
                    /\ ret[p].value[1].config = ret[p].args
                    /\ (ret[p].value[1].parent_config # Nothing)
                          <=> (wlog[k].args.config.checkpoint_id # <<>>)

\* C2: GetTuple without a checkpoint_id returns the checkpoint with the
\* greatest checkpoint_id among those stored under the requested
\* (thread_id, checkpoint_ns), and None when none is stored there.
C2_LatestResolution ==
    \A p \in Procs :
        (Done(p, "aget_tuple") /\ ret[p].args.checkpoint_id = <<>>) =>
            LET S == StoredUnder(ret[p].args.thread_id, ret[p].args.checkpoint_ns) IN
            IF S = {} THEN ret[p].value = Nothing
            ELSE /\ ret[p].value # Nothing
                 /\ \E k \in S :
                       /\ \A j \in S : ~StrLess(Triple(wlog[k]).checkpoint_id,
                                                Triple(wlog[j]).checkpoint_id)
                       /\ ret[p].value[1].config = Triple(wlog[k])
                       /\ ret[p].value[1].checkpoint = wlog[k].args.checkpoint

\* The checkpoints stored under the requested address that pass the before
\* filter of a List call with arguments a.
Listable(a) ==
    {k \in StoredUnder(a.thread_id, a.checkpoint_ns) :
        a.before # Nothing =>
            StrLess(Triple(wlog[k]).checkpoint_id, a.before[1].checkpoint_id)}

\* C5: List with before = b (and no limit) yields exactly the checkpoints
\* stored under the requested (thread_id, checkpoint_ns) whose checkpoint_id
\* is less than b, and none whose checkpoint_id is b or greater.
C5_BeforeExclusive ==
    \A p \in Procs :
        (Done(p, "alist") /\ ret[p].args.before # Nothing /\ ret[p].args.limit = Nothing) =>
            /\ {t.config : t \in {ret[p].value[i] : i \in 1..Len(ret[p].value)}}
                  = {Triple(wlog[k]) : k \in Listable(ret[p].args)}
            /\ \A i \in 1..Len(ret[p].value) :
                  StrLess(ret[p].value[i].config.checkpoint_id,
                          ret[p].args.before[1].checkpoint_id)

Min(a, b) == IF a < b THEN a ELSE b

\* C6: List yields in strictly descending checkpoint_id order, and with a
\* limit L over N stored checkpoints (after the before filter) it yields the
\* min(L, N) of them with the greatest checkpoint_ids.
C6_LimitAndOrder ==
    \A p \in Procs :
        Done(p, "alist") =>
            LET out == ret[p].value
                N == Cardinality(Listable(ret[p].args))
                L == IF ret[p].args.limit = Nothing THEN N ELSE ret[p].args.limit[1]
                ids == {out[i].config.checkpoint_id : i \in 1..Len(out)}
            IN /\ \A i \in 1..(Len(out) - 1) :
                     StrLess(out[i + 1].config.checkpoint_id, out[i].config.checkpoint_id)
               /\ Len(out) = Min(L, N)
               /\ \A i \in 1..Len(out) :
                     out[i].config \in {Triple(wlog[k]) : k \in Listable(ret[p].args)}
               /\ \A k \in Listable(ret[p].args) :
                     Triple(wlog[k]).checkpoint_id \notin ids =>
                        \A x \in ids : StrLess(Triple(wlog[k]).checkpoint_id, x)

\* The pending writes a PutWrites call with arguments a is due to give back.
Submitted(a) ==
    [i \in 1..Len(a.writes) |-> <<a.task_id, a.writes[i][1], a.writes[i][2]>>]

\* The write keys of the checkpoint a tuple is of, as the log has them.
WritesOf(config) ==
    {k \in DOMAIN wlog : wlog[k].op = "aput_writes" /\ Triple(wlog[k]) = config}

\* C3: the writes of one PutWrites call under one task_id, however many, come
\* back from a later GetTuple of that checkpoint in the order submitted,
\* whatever order the key scan returned the keys in.
C3_PendingWriteOrder ==
    \A p \in Procs :
        (Done(p, "aget_tuple") /\ ret[p].value # Nothing) =>
            \A k \in WritesOf(ret[p].value[1].config) :
                (\A j \in WritesOf(ret[p].value[1].config) : wlog[j].args = wlog[k].args)
                    => ret[p].value[1].pending_writes[1] = Submitted(wlog[k].args)

\* The record a Put with arguments a is due to leave, field by field.
RecordOf(a) ==
    [checkpoint |-> [bytes |-> <<"typed", a.checkpoint>>],
     type |-> [bytes |-> TypeTag],
     checkpoint_id |-> [bytes |-> a.checkpoint.id],
     metadata |-> [bytes |-> <<"json", a.metadata>>],
     parent_checkpoint_id |-> [bytes |-> a.config.checkpoint_id]]

\* C4: whatever the interleaving of the round trips of the Put calls on one
\* key, the stored record equals in every field the record of the call whose
\* HSET landed last: no field of an earlier record survives, none is merged.
C4_LastWriteWins ==
    \A k \in DOMAIN db :
        wlog[k].op = "aput" => db[k] = RecordOf(wlog[k].args)

\* Two callers have completed a Put each on one key, with another payload,
\* metadata and parent, their round trips interleaved, and the record is the
\* one of the first caller.
C4_Witness ==
    /\ Done(1, "aput") /\ Done(2, "aput")
    /\ Triple([op |-> "aput", args |-> ret[1].args]) = Triple([op |-> "aput", args |-> ret[2].args])
    /\ ret[1].args.checkpoint # ret[2].args.checkpoint
    /\ ret[1].args.metadata # ret[2].args.metadata
    /\ ret[1].args.config.checkpoint_id # ret[2].args.config.checkpoint_id
    /\ \E k \in DOMAIN db :
          /\ wlog[k].op = "aput" /\ wlog[k].by = 1 /\ wlog[k].racing
          /\ db[k] = RecordOf(ret[1].args)

\* C9: GetTuple never raises for want of a record (no key of the backend is
\* malformed in any reachable state), whatever expires or is written between
\* its round trips; on a backend nothing was written to, it returns None.
C9_AbsentNotError ==
    \A p \in Procs :
        ret[p].op = "aget_tuple" =>
            /\ ret[p].status # "raised"
            /\ (ret[p].status = "returned" /\ nops = 1) => ret[p].value = Nothing

\* The steps of GetTuple and List.
ReadStep ==
    \E p \in Procs :
        /\ <<pc[p], loc[p], ret[p]>> # <<pc'[p], loc'[p], ret'[p]>>
        /\ (loc[p].op \in {"aget_tuple", "alist"} \/ ret'[p].op \in {"aget_tuple", "alist"})

\* Every key has a time-to-live unless a call is between its HSET and its
\* EXPIRE; the time-to-live is the configured value less the seconds since
\* the last EXPIRE of a write.
TtlOnEveryKey ==
    \A k \in DOMAIN db :
        IF ttl[k] = NoExpiry THEN InFlightOn(k) # {}
        ELSE ttl[k] = REDIS_TTL_SECONDS - age[k]

\* A Put that returns in this step, or a PutWrites that has in this step done
\* with one of its keys, leaves that key in the backend with the full
\* configured time-to-live.
FullTtlOnReturn ==
    \A p \in Procs :
        (pc[p] \in {"aput_expire", "aput_writes_expire"} /\ pc'[p] # pc[p]) =>
            /\ loc[p].key \in DOMAIN db'
            /\ ttl'[loc[p].key] = REDIS_TTL_SECONDS

\* C10: every key a returned Put or PutWrites wrote carries the configured
\* time-to-live counted from the write's EXPIRE, a later write to the key
\* sets it to the full value again, and no step of GetTuple or List changes
\* the time-to-live of any key.
C10_TtlOnEveryWrite ==
    [][/\ TtlOnEveryKey'
       /\ FullTtlOnReturn
       /\ ReadStep => ttl' = ttl]_vars

\* The pending write a logged write key holds, as GetTuple is due to give it.
WrittenAt(k) ==
    <<wlog[k].args.task_id,
      wlog[k].args.writes[wlog[k].idx + 1][1],
      wlog[k].args.writes[wlog[k].idx + 1][2]>>

\* The pending writes of a returned GetTuple.
PendingOf(p) == ret[p].value[1].pending_writes[1]

\* A GetTuple by p has returned a checkpoint.
GotTuple(p) == Done(p, "aget_tuple") /\ ret[p].value # Nothing

\* C11: a GetTuple made once the PutWrites calls have returned gives one
\* pending write for each write key of the checkpoint, with the task_id, the
\* channel and the value of the write that key was given; and every write of
\* a call that alone wrote for its task_id is among them.
C11_ConcurrentWritesCompose ==
    \A p \in Procs :
        GotTuple(p) =>
            LET out == PendingOf(p)
                W == WritesOf(ret[p].value[1].config)
                given == {out[i] : i \in 1..Len(out)}
            IN /\ Len(out) = Cardinality(W)
               /\ \A k \in W : WrittenAt(k) \in given
               /\ \A k \in W :
                     (\A j \in W : wlog[j].args.task_id = wlog[k].args.task_id
                                      => wlog[j].args = wlog[k].args)
                        => \A i \in 1..Len(wlog[k].args.writes) :
                              <<wlog[k].args.task_id, wlog[k].args.writes[i][1],
                                wlog[k].args.writes[i][2]>> \in given

\* Each caller has written the two writes of another sequence under another
\* task_id of one checkpoint, and a GetTuple has returned all four.
C11_Witness ==
    \E p \in Procs :
        /\ GotTuple(p)
        /\ Len(PendingOf(p)) = 4
        /\ \E j, k \in WritesOf(ret[p].value[1].config) :
              /\ wlog[j].by = 1 /\ wlog[k].by = 2
              /\ wlog[j].args.task_id # wlog[k].args.task_id
              /\ wlog[j].args.writes # wlog[k].args.writes

\* What the scope's caller has going on the connection in this step: a call
\* started or resumed.
StoreStep ==
    \/ nops' # nops
    \/ db' # db
    \/ ttl' # ttl
    \/ (pc' # pc /\ scope'.at = scope.at)
    \/ (loc' # loc /\ scope'.at = scope.at)

ReleasedOnce ==
    /\ scope.closes <= 1
    /\ scope.conn = "None" => scope.closes = 0
    /\ scope.conn = "open" => (scope.closes = 0 /\ scope.at \in {"body", "finally"})
    /\ scope.conn = "closed" => (scope.closes = 1 /\ scope.at = "exited")

\* C12: for both entry points and both ways out of the caller's block, the
\* connection that was opened is closed once, the finally that closes it runs
\* whenever the block is left, and every store operation goes out on the open
\* connection.
C12_ScopedRelease ==
    /\ []ReleasedOnce
    /\ [][StoreStep => (scope.conn = "open" /\ scope'.conn = "open")]_vars
    /\ (scope.at = "finally") ~> (scope.at = "exited")

\* A scope was left by an error while a call of its caller was suspended, and
\* its connection has been closed.
C12_Witness ==
    /\ scope.at = "exited" /\ scope.raised /\ scope.closes = 1
    /\ ret[Owner].status = "raised"
    /\ DOMAIN db # {}

\* The keys of s that begin with the kind token and the separator.
KeysOfKind(S, kind) ==
    {k \in S : Len(k) > Len(kind) /\ SubSeq(k, 1, Len(kind) + 1) = kind \o <<REDIS_KEY_SEPARATOR>>}

\* This step leaves alone every key outside K: its record, its time-to-live,
\* and that it is there or not.
OnlyKeys(K) ==
    /\ (DOMAIN db') \ K = (DOMAIN db) \ K
    /\ \A k \in (DOMAIN db) \ K : db'[k] = db[k] /\ ttl'[k] = ttl[k]

\* A step of a call op of caller p.
StepOf(p, op) == ret'[p].op = op /\ <<pc[p], loc[p], ret[p]>> # <<pc'[p], loc'[p], ret'[p]>>

\* C13: every step of a Put changes at most the checkpoint key of
\* (thread_id, checkpoint_ns, checkpoint.id) and Put returns the config of
\* checkpoint.id; every step of a PutWrites changes at most the writes keys of
\* (thread_id, checkpoint_ns, checkpoint_id, task_id, 0..len(writes)-1), no
\* checkpoint key among them, and PutWrites returns the config it was given.
C13_WriterFrame ==
    [][\A p \in Procs :
          /\ StepOf(p, "aput") =>
                LET a == ret'[p].args IN
                /\ OnlyKeys({_make_redis_checkpoint_key(
                                a.config.thread_id, a.config.checkpoint_ns, a.checkpoint.id)})
                /\ ret'[p].status = "returned" =>
                      ret'[p].value = [thread_id |-> a.config.thread_id,
                                       checkpoint_ns |-> a.config.checkpoint_ns,
                                       checkpoint_id |-> a.checkpoint.id]
          /\ StepOf(p, "aput_writes") =>
                LET a == ret'[p].args
                    K == {_make_redis_checkpoint_writes_key(
                              a.config.thread_id, a.config.checkpoint_ns,
                              a.config.checkpoint_id, a.task_id, i - 1) : i \in 1..Len(a.writes)}
                IN /\ OnlyKeys(K)
                   /\ KeysOfKind(K, KindCheckpoint) = {}
                   /\ \A k \in KeysOfKind(DOMAIN db, KindCheckpoint) :
                         k \in DOMAIN db' /\ db'[k] = db[k]
                   /\ ret'[p].status = "returned" => ret'[p].value = a.config]_vars

\* A Put has returned with the record of another checkpoint and a pending
\* write in the backend, each as it was written.
C13_Witness ==
    /\ Done(1, "aput")
    /\ \E k, w \in DOMAIN db :
          /\ wlog[k].op = "aput" /\ wlog[k].args # ret[1].args
          /\ db[k] = RecordOf(wlog[k].args)
          /\ wlog[w].op = "aput_writes"

\* C14: two GetTuple calls on one checkpoint, made on the same stored
\* records, return the same sequence of pending writes.
C14_DeterministicOrder ==
    \A p, q \in Procs :
        (GotTuple(p) /\ GotTuple(q) /\ ret[p].args = ret[q].args) =>
            PendingOf(p) = PendingOf(q)

\* C15: the checkpoint GetTuple returns when given no checkpoint_id, and every
\* tuple List yields, has the thread_id and the checkpoint_ns asked for and
\* was stored under them.
C15_NamespaceIsolation ==
    \A p \in Procs :
        LET asked == StoredUnder(ret[p].args.thread_id, ret[p].args.checkpoint_ns)
            Mine(t) == /\ t.config.thread_id = ret[p].args.thread_id
                       /\ t.config.checkpoint_ns = ret[p].args.checkpoint_ns
                       /\ t.config \in {Triple(wlog[k]) : k \in asked}
        IN /\ (GotTuple(p) /\ ret[p].args.checkpoint_id = <<>>) => Mine(ret[p].value[1])
           /\ Done(p, "alist") => \A i \in 1..Len(ret[p].value) : Mine(ret[p].value[i])

\* C16: whatever the callers do, giving up a Put or a PutWrites between two
\* of its round trips included, the backend ends up with no key: every key
\* written is evicted once the writes to it have stopped.
C16_EventualExpiry == <>[](DOMAIN db = {})

\* C17: List never raises; what it yields is in descending checkpoint_id
\* order and carries no pending writes; a key of its scan that has no record
\* when it is fetched is passed over, and every checkpoint still stored when
\* List ends has been yielded.
C17_ListSkipsMissing ==
    \A p \in Procs :
        ret[p].op = "alist" =>
            LET out == ret[p].value IN
            /\ ret[p].status # "raised"
            /\ \A i \in 1..(Len(out) - 1) :
                  StrLess(out[i + 1].config.checkpoint_id, out[i].config.checkpoint_id)
            /\ \A i \in 1..Len(out) : out[i].pending_writes = Nothing
            /\ Done(p, "alist") =>
                  \A k \in StoredUnder(ret[p].args.thread_id, ret[p].args.checkpoint_ns) :
                      \E i \in 1..Len(out) :
                          /\ out[i].config = Triple(wlog[k])
                          /\ out[i].checkpoint = wlog[k].args.checkpoint

\* List has scanned two keys, the record of the first was gone when it was
\* fetched and nothing was yielded for it, and the second is still to fetch.
C17_Witness ==
    /\ pc[Owner] = "alist_hgetall"
    /\ Len(loc[Owner].scanned) = 2
    /\ Len(loc[Owner].keys) = 1
    /\ ret[Owner].value = <<>>
    /\ Head(loc[Owner].keys) \in DOMAIN db

\* The record aput_writes is due to leave for the i-th write of a call.
WriteRecordOf(a, i) ==
    [channel |-> [bytes |-> a.writes[i][1]],
     type |-> [bytes |-> TypeTag],
     value |-> [bytes |-> <<"typed", a.writes[i][2]>>]]

\* The writes key of position idx of a task of a checkpoint.
KeyAt(config, task_id, idx) ==
    _make_redis_checkpoint_writes_key(config.thread_id, config.checkpoint_ns,
                                      config.checkpoint_id, task_id, idx)

\* The write keys the log has for a task of a checkpoint.
TaskKeys(config, task_id) == {k \in WritesOf(config) : wlog[k].args.task_id = task_id}

\* The length of the longest call among those that wrote the keys K last.
Longest(K) ==
    CHOOSE n \in {Len(wlog[k].args.writes) : k \in K} :
        \A k \in K : Len(wlog[k].args.writes) <= n

\* The pending writes of task_id among those a GetTuple by p returned.
PendingOfTask(p, task_id) ==
    LET Mine(w) == w[1] = task_id IN SelectSeq(PendingOf(p), Mine)

\* No step takes a key out of the backend.
NoCleanup == (DOMAIN db) \subseteq (DOMAIN db')

\* When a PutWrites of one caller working alone has returned, positions
\* 0..len(writes)-1 of its task hold its records, every higher position that
\* was written before holds the record it had, and there are as many records
\* as the longest call wrote.
TailKept ==
    Done(Owner, "aput_writes") =>
        LET a == ret[Owner].args
            K == TaskKeys(a.config, a.task_id)
        IN /\ K = {KeyAt(a.config, a.task_id, i - 1) : i \in 1..Longest(K)}
           /\ \A i \in 1..Len(a.writes) :
                 /\ wlog[KeyAt(a.config, a.task_id, i - 1)].args = a
                 /\ db[KeyAt(a.config, a.task_id, i - 1)] = WriteRecordOf(a, i)
           /\ \A k \in K : db[k] = WriteRecordOf(wlog[k].args, wlog[k].idx + 1)

\* GetTuple gives every record of the task, in the order of the positions.
TailRead ==
    GotTuple(Owner) =>
        LET config == ret[Owner].value[1].config IN
        \A task_id \in {wlog[k].args.task_id : k \in WritesOf(config)} :
            PendingOfTask(Owner, task_id) =
                [i \in 1..Longest(TaskKeys(config, task_id)) |->
                    WrittenAt(KeyAt(config, task_id, i - 1))]

\* C18: a PutWrites for a task that wrote a longer sequence before leaves the
\* earlier records of the higher positions as they were, after its own; one
\* of the same length leaves its own records only; no call removes a record;
\* and GetTuple returns them all.
C18_StaleTail == []TailKept /\ []TailRead /\ [][NoCleanup]_vars

\* After a PutWrites of two writes and one of a single write for the same
\* task, GetTuple has returned the write of the second call and then the
\* second write of the first.
C18_Witness ==
    /\ GotTuple(Owner)
    /\ PendingOf(Owner) = << <<<<"k">>, "chC", "v2">>, <<<<"k">>, "chB", "v1">> >>

\* The write keys of the task and checkpoint of the write key k.
SameTask(k) ==
    {j \in DOMAIN wlog : /\ wlog[j].op = "aput_writes"
                         /\ Triple(wlog[j]) = Triple(wlog[k])
                         /\ wlog[j].args.task_id = wlog[k].args.task_id}

\* C19 as stated: once the PutWrites calls on a task have returned, and they
\* were of one length, the stored sequence is that of one call whole.
C19_AtomicCollision ==
    Quiet =>
        \A k \in DOMAIN wlog :
            (/\ wlog[k].op = "aput_writes"
             /\ \A j \in SameTask(k) : Len(wlog[j].args.writes) = Len(wlog[k].args.writes))
                => \A j \in SameTask(k) : wlog[j].args = wlog[k].args

\* C19, amended: once the PutWrites calls on a task have returned, every
\* position up to the length of the longest of them holds, whole, the record
\* of the call whose write to that position landed last; which call that is
\* may differ from one position to the next.
C19_PerIndexLastWriteWins ==
    Quiet =>
        \A k \in DOMAIN wlog :
            wlog[k].op = "aput_writes" =>
                /\ db[k] = WriteRecordOf(wlog[k].args, wlog[k].idx + 1)
                /\ SameTask(k) = {KeyAt(Triple(wlog[k]), wlog[k].args.task_id, i - 1) :
                                     i \in 1..Longest(SameTask(k))}

\* Two PutWrites calls of two writes each on one task have returned, and the
\* first position holds the write of one, the second that of the other.
C19_Witness ==
    /\ Quiet
    /\ \E j, k \in DOMAIN wlog :
          /\ wlog[j].op = "aput_writes" /\ k \in SameTask(j)
          /\ wlog[j].idx = 0 /\ wlog[k].idx = 1
          /\ wlog[j].by # wlog[k].by
          /\ wlog[j].args # wlog[k].args
          /\ Len(wlog[j].args.writes) = 2 /\ Len(wlog[k].args.writes) = 2
          /\ db[j] = WriteRecordOf(wlog[j].args, 1)
          /\ db[k] = WriteRecordOf(wlog[k].args, 2)

\* s is the first Len(s) elements of t.
IsPrefix(s, t) == Len(s) <= Len(t) /\ s = SubSeq(t, 1, Len(s))

====
